---- MODULE Spec2Model ----
(***************************************************************************)
(* A model of sparse_net.ipynb: the sparse fully connected forward op      *)
(* (dense_np), its gradient (dense_grad_np), the gradient registration of  *)
(* py_func, the SparseFullyConnected layer, the 3-layer nn_model and the   *)
(* training / validation loop.                                             *)
(*                                                                         *)
(* Sparse tensors are triples (indices, values, shape).  Indices are       *)
(* sequences of pairs <<row, col>> (0-based, as in the source), values are *)
(* sequences of integers, positionally aligned with the indices.           *)
(* Sequences are 1-based: the numpy element a[k] is a[k+1] here.           *)
(***************************************************************************)
EXTENDS Integers, Sequences, FiniteSets, TLC

VARIABLES
    w_idx, w_val, w_shape,   \* the weight triple handed to the op
    x_idx, x_val, x_shape,   \* the input triple handed to the op
    grad,                    \* the upstream gradient handed to dense_grad_np
    h,                       \* what dense_np returned (or raised)
    g,                       \* what dense_grad_np returned (or raised)
    oppc,                    \* "idle" | "input" | "forward" | "backward"
    layer,                   \* one SparseFullyConnected object
    in_data,                 \* the sparse batch the layer is applied to
    out,                     \* what the layer's last forward call returned
    n_calls,                 \* forward calls of the layer so far
    n_builds,                \* runs of build so far
    n_updates,               \* optimizer updates so far
    last,                    \* the last step the layer took
    gradient_registry,       \* the names tf.RegisterGradient has registered
    lerr,                    \* the exception that ended the layer's program
    tpc,                     \* "idle" | "train" | "valid" | "done"
    i,                       \* the batch counter of the training loop
    saved,                   \* the global steps of the checkpoints saved
    iter_left,               \* batches the shared iterator still holds
    valid_iters,             \* validation steps run
    n_train, n_test,         \* batches in the training and the test set
    index,                   \* the dataset's fixed feature positions
    next_element,            \* the batch fed to nn_model
    fc1, fc2, fc3,           \* the outputs of the three layers
    npc                      \* layers of nn_model applied so far

opvars == <<w_idx, w_val, w_shape, x_idx, x_val, x_shape, grad, h, g, oppc>>

layervars == <<layer, in_data, out, n_calls, n_builds, n_updates, last,
               gradient_registry, lerr>>

trainvars == <<tpc, i, saved, iter_left, valid_iters, n_train, n_test>>

netvars == <<index, next_element, fc1, fc2, fc3, npc>>

----------------------------------------------------------------------------
(* Bounds of the model.                                                    *)
MaxBatch == 2     \* batch sizes 1..MaxBatch
MaxOut == 2       \* output units 1..MaxOut
MaxIn == 2        \* input columns 0..MaxIn-1
MaxCalls == 2     \* forward calls of one layer object
MaxUpdates == 1   \* optimizer updates of one layer object
NameSpace == 3    \* names np.random.randint draws from (1E+8 in the source)
MaxTrainBatches == 21   \* batches of the training set, 0..MaxTrainBatches
MaxTestBatches == 3     \* batches of the test set, 1..MaxTestBatches

----------------------------------------------------------------------------
(* numpy helpers.                                                          *)

\* np.arange(n)
Arange(n) == [t \in 1..n |-> t - 1]

\* np.repeat(x, k): every element of x repeated k times in a row
Repeat(x, k) == [t \in 1..(Len(x) * k) |-> x[((t - 1) \div k) + 1]]

\* np.tile(y, k): y concatenated k times
Tile(y, k) == [t \in 1..(Len(y) * k) |-> y[((t - 1) % Len(y)) + 1]]

\* np.transpose([a, b]) for two equally long vectors: the rows <<a[t], b[t]>>
Transpose2(a, b) == [t \in 1..Len(a) |-> <<a[t], b[t]>>]

\* np.transpose([np.repeat(x, len(y)), np.tile(y, len(x))])
CrossIdx(x, y) == Transpose2(Repeat(x, Len(y)), Tile(y, Len(x)))

\* np.zeros(n)
Zeros(n) == [t \in 1..n |-> 0]

RECURSIVE SumSeq(_)
SumSeq(s) == IF s = <<>> THEN 0 ELSE s[1] + SumSeq(Tail(s))

Abs(v) == IF v < 0 THEN -v ELSE v

\* spacing of the float32 grid at magnitude a >= 0 (24 bit significand)
RECURSIVE Ulp(_)
Ulp(a) == IF a < 2^24 THEN 1 ELSE 2 * Ulp(a \div 2)

\* astype(np.float32) of an integer value: round to nearest, ties to even
Float32(v) ==
    LET a == Abs(v)
        u == Ulp(a)
        q == a \div u
        r == a % u
        m == IF 2 * r < u THEN q
             ELSE IF 2 * r > u THEN q + 1
             ELSE IF q % 2 = 0 THEN q ELSE q + 1
    IN  IF v < 0 THEN -(m * u) ELSE m * u

Float32Vec(s) == [t \in 1..Len(s) |-> Float32(s[t])]

\* (idx == [r, c]).all(axis=1): the positions of idx holding the pair (r, c)
Mask(idx, r, c) == {t \in 1..Len(idx) : idx[t] = <<r, c>>}

\* val[mask]: the selected values, in the order of their positions
Pick(val, mask) ==
    [t \in 1..Cardinality(mask) |->
        val[CHOOSE p \in mask : Cardinality({q \in mask : q <= p}) = t]]

Select(val, idx, r, c) == Pick(val, Mask(idx, r, c))

----------------------------------------------------------------------------
(* dense_np.                                                               *)

\* An accumulator array in a loop that may raise: err = "" while the loop
\* runs normally, else the name of the exception that ended it.
Acc(v) == [err |-> "", v |-> v]

Raise(e) == [err |-> e, v |-> <<>>]

Raised(acc) == acc.err # ""

\* AddAt with "=" in place of "+=": the slot is overwritten
AddAt_overwrite(acc, k, s, sel) ==
    IF Raised(acc) THEN acc
    ELSE IF k \notin DOMAIN acc.v THEN Raise("IndexError")
    ELSE IF Len(sel) # 1 THEN Raise("ValueError")
    ELSE Acc([acc.v EXCEPT ![k] = s * sel[1]])

\* AddAt that skips an empty selection instead of raising
AddAt_missing_zero(acc, k, s, sel) ==
    IF Raised(acc) THEN acc
    ELSE IF k \notin DOMAIN acc.v THEN Raise("IndexError")
    ELSE IF Len(sel) = 0 THEN acc
    ELSE IF Len(sel) # 1 THEN Raise("ValueError")
    ELSE Acc([acc.v EXCEPT ![k] = @ + s * sel[1]])

\* a[k] += s * sel for a scalar slot a[k] and an array sel: numpy stores the
\* array a[k] + s * sel into the scalar slot, which works for an array of
\* exactly one element and raises ValueError otherwise; a slot outside a
\* raises IndexError before that.
AddAt(acc, k, s, sel) ==
    IF Raised(acc) THEN acc
    ELSE IF k \notin DOMAIN acc.v THEN Raise("IndexError")
    ELSE IF Len(sel) # 1 THEN Raise("ValueError")
    ELSE Acc([acc.v EXCEPT ![k] = @ + s * sel[1]])

\* one pass of the loop body of dense_np: step t handles batch row
\* bi = (t-1) div len(w_idx) and weight entry j = (t-1) mod len(w_idx)
ForwardStep(t, h_vals, widx, wval, xidx, xval, n_neurons) ==
    LET bi == (t - 1) \div Len(widx)
        j == ((t - 1) % Len(widx)) + 1
        idx == widx[j]
    IN  AddAt(h_vals, bi * n_neurons + idx[1] + 1, wval[j],
              Select(xval, xidx, bi, idx[2]))

\* the steps lo..hi of the double loop in the order of the code, the first
\* half before the second; an exception ends the loop
RECURSIVE ForwardSteps(_, _, _, _, _, _, _, _)
ForwardSteps(lo, hi, h_vals, widx, wval, xidx, xval, n_neurons) ==
    IF lo > hi \/ Raised(h_vals) THEN h_vals
    ELSE IF lo = hi
    THEN ForwardStep(lo, h_vals, widx, wval, xidx, xval, n_neurons)
    ELSE LET mid == (lo + hi) \div 2
             first == ForwardSteps(lo, mid, h_vals, widx, wval, xidx, xval,
                                   n_neurons)
         IN  ForwardSteps(mid + 1, hi, first, widx, wval, xidx, xval,
                          n_neurons)

\* the double loop of dense_np, flattened, from step t on
ForwardLoop(t, h_vals, widx, wval, xidx, xval, batch_size, n_neurons) ==
    ForwardSteps(t, batch_size * Len(widx), h_vals, widx, wval, xidx, xval,
                 n_neurons)

\* dense_np that leaves the pairs with a zero value out of its output
dense_np_pruned(widx, wval, wshape, xidx, xval, xshape) ==
    LET batch_size == xshape[1]
        n_neurons == wshape[1]
        h_idx == CrossIdx(Arange(batch_size), Arange(n_neurons))
        h_vals == ForwardLoop(1, Acc(Zeros(batch_size * n_neurons)),
                              widx, wval, xidx, xval, batch_size, n_neurons)
        keep == {t \in 1..(batch_size * n_neurons) : h_vals.v[t] # 0}
    IN  IF Raised(h_vals)
        THEN [ok |-> FALSE, err |-> h_vals.err, h_idx |-> <<>>,
              h_val |-> <<>>, h_shape |-> <<>>]
        ELSE [ok |-> TRUE, err |-> "", h_idx |-> Pick(h_idx, keep),
              h_val |-> Float32Vec(Pick(h_vals.v, keep)),
              h_shape |-> <<batch_size, n_neurons>>]

dense_np(widx, wval, wshape, xidx, xval, xshape) ==
    LET batch_size == xshape[1]
        n_neurons == wshape[1]
        h_shape == <<batch_size, n_neurons>>
        h_idx == CrossIdx(Arange(batch_size), Arange(n_neurons))
        h_vals == ForwardLoop(1, Acc(Zeros(batch_size * n_neurons)),
                              widx, wval, xidx, xval, batch_size, n_neurons)
    IN  IF Raised(h_vals)
        THEN [ok |-> FALSE, err |-> h_vals.err, h_idx |-> <<>>,
              h_val |-> <<>>, h_shape |-> <<>>]
        ELSE [ok |-> TRUE, err |-> "", h_idx |-> h_idx,
              h_val |-> Float32Vec(h_vals.v), h_shape |-> h_shape]

----------------------------------------------------------------------------
(* dense_grad_np.                                                          *)

\* GradAddAt that forgets the upstream gradient
GradAddAt_nograd(acc, j, gr, k, sel) ==
    IF Raised(acc) THEN acc
    ELSE IF k \notin DOMAIN gr THEN Raise("IndexError")
    ELSE AddAt(acc, j, 1, sel)

\* acc[j] += grad[k] * sel
GradAddAt(acc, j, gr, k, sel) ==
    IF Raised(acc) THEN acc
    ELSE IF k \notin DOMAIN gr THEN Raise("IndexError")
    ELSE AddAt(acc, j, gr[k], sel)

\* WGradLoop reading grad as if it were laid out column-major
RECURSIVE WGradLoop_colmajor(_, _, _, _, _, _, _, _)
WGradLoop_colmajor(t, w_grad, widx, xidx, xval, gr, batch_size, n_neurons) ==
    IF t > Len(widx) * batch_size \/ Raised(w_grad) THEN w_grad
    ELSE LET j == ((t - 1) \div batch_size) + 1
             bi == (t - 1) % batch_size
             idx == widx[j]
         IN  WGradLoop_colmajor(t + 1,
                 GradAddAt(w_grad, j, gr, bi + idx[1] * batch_size + 1,
                           Select(xval, xidx, bi, idx[2])),
                 widx, xidx, xval, gr, batch_size, n_neurons)

\* first loop: for j, idx in enumerate(w_idx): for bi in range(batch_size)
RECURSIVE WGradLoop(_, _, _, _, _, _, _, _)
WGradLoop(t, w_grad, widx, xidx, xval, gr, batch_size, n_neurons) ==
    IF t > Len(widx) * batch_size \/ Raised(w_grad) THEN w_grad
    ELSE LET j == ((t - 1) \div batch_size) + 1
             bi == (t - 1) % batch_size
             idx == widx[j]
         IN  WGradLoop(t + 1,
                 GradAddAt(w_grad, j, gr, bi * n_neurons + idx[1] + 1,
                           Select(xval, xidx, bi, idx[2])),
                 widx, xidx, xval, gr, batch_size, n_neurons)

\* XGradLoop that looks the weight of unit ni up in the row of the sample
RECURSIVE XGradLoop_samplerow(_, _, _, _, _, _, _)
XGradLoop_samplerow(t, x_grad, widx, wval, xidx, gr, n_neurons) ==
    IF t > Len(xidx) * n_neurons \/ Raised(x_grad) THEN x_grad
    ELSE LET k == ((t - 1) \div n_neurons) + 1
             ni == (t - 1) % n_neurons
             idx == xidx[k]
         IN  XGradLoop_samplerow(t + 1,
                 GradAddAt(x_grad, k, gr, idx[1] * n_neurons + ni + 1,
                           Select(wval, widx, idx[1], idx[2])),
                 widx, wval, xidx, gr, n_neurons)

\* second loop: for k, idx in enumerate(x_idx): for ni in range(n_neurons)
RECURSIVE XGradLoop(_, _, _, _, _, _, _)
XGradLoop(t, x_grad, widx, wval, xidx, gr, n_neurons) ==
    IF t > Len(xidx) * n_neurons \/ Raised(x_grad) THEN x_grad
    ELSE LET k == ((t - 1) \div n_neurons) + 1
             ni == (t - 1) % n_neurons
             idx == xidx[k]
         IN  XGradLoop(t + 1,
                 GradAddAt(x_grad, k, gr, idx[1] * n_neurons + ni + 1,
                           Select(wval, widx, ni, idx[2])),
                 widx, wval, xidx, gr, n_neurons)

dense_grad_np(widx, wval, wshape, xidx, xval, xshape, gr) ==
    LET batch_size == xshape[1]
        n_neurons == wshape[1]
        w_grad == WGradLoop(1, Acc(Zeros(Len(wval))), widx, xidx, xval, gr,
                            batch_size, n_neurons)
        x_grad == IF Raised(w_grad) THEN w_grad
                  ELSE XGradLoop(1, Acc(Zeros(Len(xval))), widx, wval, xidx,
                                 gr, n_neurons)
    IN  IF Raised(x_grad)
        THEN [ok |-> FALSE, err |-> x_grad.err, w_grad |-> <<>>,
              x_grad |-> <<>>]
        ELSE [ok |-> TRUE, err |-> "", w_grad |-> Float32Vec(w_grad.v),
              x_grad |-> Float32Vec(x_grad.v)]

----------------------------------------------------------------------------
(* Inputs of the op.                                                       *)

Cols == 0..(MaxIn - 1)

\* in_indices of a layer: a nonempty list of distinct input columns, in any
\* order (the dataset's positions are drawn at random, line 71)
Patterns ==
    {p \in UNION {[1..n -> Cols] : n \in 1..MaxIn} :
        \A a, b \in DOMAIN p : a # b => p[a] # p[b]}

\* vectors of n values, all base except at most one, the first or the last,
\* which is alt
OneOff(n, base, alt) ==
    {[t \in 1..n |-> IF t = k THEN alt ELSE base] : k \in {0, 1, n}}

\* the vector start, start+1, ... of n values
Ramp(n, start) == [t \in 1..n |-> start + t - 1]

\* s without its k-th element
Drop(s, k) == [t \in 1..(Len(s) - 1) |-> IF t < k THEN s[t] ELSE s[t + 1]]

\* the batch of `batch` samples that all have the nonzero columns p
\* (dataset.map(... tf.SparseTensor(index, x, shape)) ... .batch(BATCH_SIZE))
BatchIdx(batch, p) == CrossIdx(Arange(batch), p)

\* the weight pattern SparseFullyConnected.build derives from in_indices
WeightIdx(n_out, p) == CrossIdx(Arange(n_out), p)

OpInput(wi, wv, ws, xi, xv, xs) ==
    /\ w_idx = wi /\ w_val = wv /\ w_shape = ws
    /\ x_idx = xi /\ x_val = xv /\ x_shape = xs

\* weight values and input values tried
WVals(n) == {Ramp(n, 2)} \cup OneOff(n, 2, -1)

XVals(n) == {Ramp(n, 5)} \cup OneOff(n, 1, 2)

\* every sample has the layer's pattern; the values vary
AlignedInput ==
    \E p \in Patterns, n_out \in 1..MaxOut, batch \in 1..MaxBatch :
        \E wv \in WVals(n_out * Len(p)), xv \in XVals(batch * Len(p)) :
            OpInput(WeightIdx(n_out, p), wv, <<n_out, MaxIn>>,
                    BatchIdx(batch, p), xv, <<batch, MaxIn>>)

\* one entry of the weight pattern is missing
SparserWeightInput ==
    \E p \in Patterns, n_out \in 1..MaxOut, batch \in 1..MaxBatch :
        \E k \in 1..(n_out * Len(p)) :
            OpInput(Drop(WeightIdx(n_out, p), k),
                    Drop(Ramp(n_out * Len(p), 2), k), <<n_out, MaxIn>>,
                    BatchIdx(batch, p), Ramp(batch * Len(p), 5),
                    <<batch, MaxIn>>)

\* one sample lacks one column of the layer's pattern
MismatchedInput ==
    \E p \in Patterns, n_out \in 1..MaxOut, batch \in 1..MaxBatch :
        \E k \in 1..(batch * Len(p)) :
            OpInput(WeightIdx(n_out, p), Ramp(n_out * Len(p), 2),
                    <<n_out, MaxIn>>,
                    Drop(BatchIdx(batch, p), k),
                    Drop(Ramp(batch * Len(p), 5), k), <<batch, MaxIn>>)

\* the hand-computed example: one sample, one neuron, two columns
ExampleInput ==
    OpInput(<<<<0, 0>>, <<0, 1>>>>, <<2, 3>>, <<1, 2>>,
            <<<<0, 0>>, <<0, 1>>>>, <<5, 7>>, <<1, 2>>)

NoResult == [ok |-> FALSE, err |-> "none", h_idx |-> <<>>, h_val |-> <<>>,
             h_shape |-> <<>>]

NoGrad == [ok |-> FALSE, err |-> "none", w_grad |-> <<>>, x_grad |-> <<>>]

OpInit ==
    /\ AlignedInput \/ SparserWeightInput \/ MismatchedInput \/ ExampleInput
    /\ grad = <<>>
    /\ h = NoResult
    /\ g = NoGrad
    /\ oppc = "input"

\* upstream gradients: all ones, ones with a 3 in the first or last place,
\* or 1, 2, 3, ...
GradVecs(n) == {Ramp(n, 1)} \cup OneOff(n, 1, 3)

\* h_idx, h_val, h_shape = dense_np(...)
Forward ==
    /\ oppc = "input"
    /\ h' = dense_np(w_idx, w_val, w_shape, x_idx, x_val, x_shape)
    /\ oppc' = "forward"
    /\ UNCHANGED <<w_idx, w_val, w_shape, x_idx, x_val, x_shape, grad, g>>
    /\ UNCHANGED <<layervars, trainvars, netvars>>

\* w_grad, x_grad = dense_grad_np(..., grad)
Backward ==
    /\ oppc = "forward"
    /\ \E gr \in GradVecs(x_shape[1] * w_shape[1]) :
        /\ grad' = gr
        /\ g' = dense_grad_np(w_idx, w_val, w_shape, x_idx, x_val, x_shape, gr)
    /\ oppc' = "backward"
    /\ UNCHANGED <<w_idx, w_val, w_shape, x_idx, x_val, x_shape, h>>
    /\ UNCHANGED <<layervars, trainvars, netvars>>

vars == <<opvars, layervars, trainvars, netvars>>

NoTensor == [ok |-> FALSE, err |-> "none", indices |-> <<>>, values |-> <<>>,
             dense_shape |-> <<>>, dense |-> <<>>]

NoLayer == [n_units_out |-> 0, n_units_in |-> 0, in_indices |-> <<>>,
            to_dense |-> FALSE, built |-> FALSE, w_values |-> <<>>,
            w_shape |-> <<>>, w_indices |-> <<>>]

OpIdle ==
    /\ OpInput(<<>>, <<>>, <<>>, <<>>, <<>>, <<>>)
    /\ grad = <<>> /\ h = NoResult /\ g = NoGrad /\ oppc = "idle"

LayerIdle ==
    /\ layer = NoLayer /\ in_data = NoTensor /\ out = NoTensor
    /\ n_calls = 0 /\ n_builds = 0 /\ n_updates = 0 /\ last = "idle"
    /\ gradient_registry = {} /\ lerr = ""

TrainIdle ==
    /\ tpc = "idle" /\ i = 0 /\ saved = <<>> /\ iter_left = 0
    /\ valid_iters = 0 /\ n_train = 0 /\ n_test = 0

NetIdle ==
    /\ index = <<>> /\ next_element = NoTensor
    /\ fc1 = NoTensor /\ fc2 = NoTensor /\ fc3 = NoTensor /\ npc = 0

OpNext == Forward \/ Backward

InitOp == OpInit /\ LayerIdle /\ TrainIdle /\ NetIdle

SpecOp == InitOp /\ [][OpNext]_vars

----------------------------------------------------------------------------
(* SparseFullyConnected.                                                   *)

\* tf.SparseTensor(indices, values, dense_shape)
SparseTensor(indices, values, dense_shape) ==
    [ok |-> TRUE, err |-> "", indices |-> indices, values |-> values,
     dense_shape |-> dense_shape, dense |-> <<>>]

\* a forward call that raised
FailedTensor(e) ==
    [ok |-> FALSE, err |-> e, indices |-> <<>>, values |-> <<>>,
     dense_shape |-> <<>>, dense |-> <<>>]

\* tf.sparse_add(tf.zeros(shape), sparse): the values scattered into zeros
DenseTensor(indices, values, dense_shape) ==
    [ok |-> TRUE, err |-> "", indices |-> <<>>, values |-> <<>>,
     dense_shape |-> dense_shape,
     dense |-> [r \in 1..dense_shape[1] |->
                  [c \in 1..dense_shape[2] |->
                     SumSeq(Select(values, indices, r - 1, c - 1))]]]

\* tf.nn.relu, elementwise
relu(v) == [t \in 1..Len(v) |-> IF v[t] > 0 THEN v[t] ELSE 0]

\* SparseFullyConnected.__init__
NewLayer(units, units_in, in_indices, to_dense) ==
    [n_units_out |-> units, n_units_in |-> units_in,
     in_indices |-> in_indices, to_dense |-> to_dense, built |-> FALSE,
     w_values |-> <<>>, w_shape |-> <<>>, w_indices |-> <<>>]

\* build that forgets to set self.built
build_unflagged(l, init) ==
    [l EXCEPT !.w_values = init,
              !.w_shape = <<l.n_units_out, l.n_units_in>>,
              !.w_indices = CrossIdx(Arange(l.n_units_out), l.in_indices)]

\* SparseFullyConnected.build; init is what the initializer draws for W
build(l, init) ==
    [l EXCEPT !.w_values = init,
              !.w_shape = <<l.n_units_out, l.n_units_in>>,
              !.w_indices = CrossIdx(Arange(l.n_units_out), l.in_indices),
              !.built = TRUE]

\* call whose sparse output keeps only the nonzero activations
call_prune_zeros(l, inputs) ==
    LET r == dense_np(l.w_indices, l.w_values, l.w_shape,
                      inputs.indices, inputs.values, inputs.dense_shape)
        a == relu(r.h_val)
        keep == {t \in DOMAIN a : a[t] # 0}
    IN  IF ~r.ok THEN FailedTensor(r.err)
        ELSE IF l.to_dense
        THEN DenseTensor(r.h_idx, a, r.h_shape)
        ELSE SparseTensor(Pick(r.h_idx, keep), Pick(a, keep), r.h_shape)

\* SparseFullyConnected.call, once dense_op's gradient is registered
call(l, inputs) ==
    LET r == dense_np(l.w_indices, l.w_values, l.w_shape,
                      inputs.indices, inputs.values, inputs.dense_shape)
    IN  IF ~r.ok THEN FailedTensor(r.err)
        ELSE IF l.to_dense
        THEN DenseTensor(r.h_idx, relu(r.h_val), r.h_shape)
        ELSE SparseTensor(r.h_idx, relu(r.h_val), r.h_shape)

\* the names 'PyFuncGrad' + str(np.random.randint(0, 1E+8)) can take
Names == 0..(NameSpace - 1)

\* the values the optimizer and the initializer may give W
LayerWVals(l) == WVals(l.n_units_out * Len(l.in_indices))

LayerInit ==
    /\ \E p \in Patterns, units \in 1..MaxOut, td \in BOOLEAN :
        /\ layer = NewLayer(units, MaxIn, p, td)
        /\ in_data = SparseTensor(BatchIdx(MaxBatch, p),
                                  Ramp(MaxBatch * Len(p), 1),
                                  <<MaxBatch, MaxIn>>)
    /\ out = NoTensor
    /\ n_calls = 0 /\ n_builds = 0 /\ n_updates = 0
    /\ last = "init"
    /\ gradient_registry = {}
    /\ lerr = ""

\* layer.apply(inputs): base.Layer.__call__ runs build on an unbuilt layer,
\* then call; call goes through dense_op and py_func, which registers the
\* gradient under a random name (tf.RegisterGradient raises KeyError for a
\* name that is registered already) before the op is made.
Apply ==
    /\ lerr = ""
    /\ n_calls < MaxCalls
    /\ n_calls' = n_calls + 1
    /\ \E init \in IF layer.built THEN {layer.w_values} ELSE LayerWVals(layer),
          rnd_name \in Names :
        LET l == IF layer.built THEN layer ELSE build(layer, init)
        IN  /\ layer' = l
            /\ n_builds' = IF layer.built THEN n_builds ELSE n_builds + 1
            /\ IF rnd_name \in gradient_registry
               THEN /\ lerr' = "KeyError"
                    /\ UNCHANGED <<gradient_registry, out>>
               ELSE /\ gradient_registry' = gradient_registry \cup {rnd_name}
                    /\ out' = call(l, in_data)
                    /\ lerr' = out'.err
    /\ last' = IF layer.built THEN "call" ELSE "build+call"
    /\ UNCHANGED <<in_data, n_updates>>
    /\ UNCHANGED <<opvars, trainvars, netvars>>

\* sess.run(optimizer): the optimizer assigns new values to W
OptimizerStep ==
    /\ lerr = ""
    /\ layer.built
    /\ n_updates < MaxUpdates
    /\ \E wv \in LayerWVals(layer) :
        /\ wv # layer.w_values
        /\ layer' = [layer EXCEPT !.w_values = wv]
    /\ n_updates' = n_updates + 1
    /\ last' = "update"
    /\ UNCHANGED <<in_data, out, n_calls, n_builds, gradient_registry, lerr>>
    /\ UNCHANGED <<opvars, trainvars, netvars>>

LayerNext == Apply \/ OptimizerStep

InitLayer == LayerInit /\ OpIdle /\ TrainIdle /\ NetIdle

SpecLayer == InitLayer /\ [][LayerNext]_vars

----------------------------------------------------------------------------
(* nn_model.                                                               *)

D == 1000            \* dimension of a sample
NumFeatures == 5     \* nonzero positions of a sample
Units1 == 10         \* units of layer 1
Units2 == 10         \* units of layer 2
Units3 == 2          \* units of layer 3
HiddenPatternLen == 10   \* in_indices = np.arange(10) of layers 2 and 3

\* index[:, 0] = np.random.randint(0, D, 5): positions a*t + b mod D; the
\* draw may repeat a position (a = 500)
IndexChoices ==
    {[t \in 1..NumFeatures |-> (a * t + b) % D] : a \in {1, 333, 500}, b \in {0, 7}}

\* the values of sample j: the last one is 1, the others vary in sign
SampleVals(j) ==
    [f \in 1..NumFeatures |->
        IF f = NumFeatures THEN 1 ELSE ((j + 2 * f) % 5) - 2]

\* dataset.batch: the values of the samples 1..batch, one row per sample
BatchVals(batch) ==
    [t \in 1..(batch * NumFeatures) |->
        SampleVals(((t - 1) \div NumFeatures) + 1)[((t - 1) % NumFeatures) + 1]]

\* initial values of a weight vector of n entries
NetWVals(n) == {[t \in 1..n |-> ((3 * t) % 7) - 3], [t \in 1..n |-> -1]}

\* sparsefc: a new layer, applied once (build, then call)
sparsefc(inputs, units, units_in, in_indices, to_dense, init) ==
    call(build(NewLayer(units, units_in, in_indices, to_dense), init), inputs)

NetInit ==
    /\ \E ix \in IndexChoices, batch \in 1..MaxBatch :
        /\ index = ix
        /\ next_element = SparseTensor(BatchIdx(batch, ix), BatchVals(batch),
                                       <<batch, D>>)
    /\ fc1 = NoTensor /\ fc2 = NoTensor /\ fc3 = NoTensor
    /\ npc = 0
    /\ gradient_registry = {}
    /\ lerr = ""
    /\ layer = NoLayer /\ in_data = NoTensor /\ out = NoTensor
    /\ n_calls = 0 /\ n_builds = 0 /\ n_updates = 0 /\ last = "idle"

\* one sparsefc line of nn_model: py_func registers the gradient of the
\* layer's op under a random name, then the layer's output is computed
NetLayer(k, inputs, units, units_in, in_indices, to_dense) ==
    /\ lerr = ""
    /\ npc = k - 1
    /\ npc' = k
    /\ \E init \in NetWVals(units * Len(in_indices)) :
        LET res == sparsefc(inputs, units, units_in, in_indices, to_dense,
                            init)
        IN  \E rnd_name \in Names :
                IF rnd_name \in gradient_registry
                THEN /\ lerr' = "KeyError"
                     /\ UNCHANGED <<gradient_registry, fc1, fc2, fc3>>
                ELSE /\ gradient_registry' = gradient_registry \cup {rnd_name}
                     /\ lerr' = res.err
                     /\ fc1' = IF k = 1 THEN res ELSE fc1
                     /\ fc2' = IF k = 2 THEN res ELSE fc2
                     /\ fc3' = IF k = 3 THEN res ELSE fc3
    /\ UNCHANGED <<index, next_element, layer, in_data, out, n_calls,
                   n_builds, n_updates, last>>
    /\ UNCHANGED <<opvars, trainvars>>

\* fc1 = sparsefc(in_data, 10, D, in_indices, tf.nn.relu)
Layer1 == NetLayer(1, next_element, Units1, D, index, FALSE)

\* fc2 = sparsefc(fc1, 10, 10, in_indices, tf.nn.relu)
Layer2 ==
    NetLayer(2, fc1, Units2, HiddenPatternLen, Arange(HiddenPatternLen), FALSE)

\* fc3 = sparsefc(fc2, 2, 10, in_indices, tf.nn.relu, to_dense=True)
Layer3 ==
    NetLayer(3, fc2, Units3, HiddenPatternLen, Arange(HiddenPatternLen), TRUE)

NetNext == Layer1 \/ Layer2 \/ Layer3

InitNet == NetInit /\ OpIdle /\ TrainIdle

SpecNet == InitNet /\ [][NetNext]_vars

----------------------------------------------------------------------------
(* The training and validation loops.                                      *)

CheckpointEvery == 10

\* SaveDue with i incremented before the test
SaveDue_after(k) == (k + 1) % CheckpointEvery = 0

\* if i % 10 == 0
SaveDue(k) == k % CheckpointEvery = 0

\* sess.run(init_op); sess.run(train_init_op); i = 0
TrainInit ==
    /\ \E nt \in 0..MaxTrainBatches, ns \in 1..MaxTestBatches :
        /\ n_train = nt /\ n_test = ns
        /\ iter_left = nt
    /\ i = 0
    /\ saved = <<>>
    /\ valid_iters = 0
    /\ tpc = "train"

\* sess.run([loss, optimizer, accuracy]) on the next batch, the checkpoint
\* when due, i += 1
TrainStep ==
    /\ tpc = "train"
    /\ iter_left > 0
    /\ iter_left' = iter_left - 1
    /\ saved' = IF SaveDue(i) THEN Append(saved, i) ELSE saved
    /\ i' = i + 1
    /\ UNCHANGED <<tpc, valid_iters, n_train, n_test>>
    /\ UNCHANGED <<opvars, layervars, netvars>>

\* sess.run raises OutOfRangeError: break; sess.run(test_init_op);
\* valid_iters = 0
TrainEnd ==
    /\ tpc = "train"
    /\ iter_left = 0
    /\ tpc' = "valid"
    /\ iter_left' = n_test
    /\ valid_iters' = 0
    /\ UNCHANGED <<i, saved, n_train, n_test>>
    /\ UNCHANGED <<opvars, layervars, netvars>>

\* acc = sess.run([accuracy]); valid_iters += 1
ValidStep ==
    /\ tpc = "valid"
    /\ iter_left > 0
    /\ iter_left' = iter_left - 1
    /\ valid_iters' = valid_iters + 1
    /\ UNCHANGED <<tpc, i, saved, n_train, n_test>>
    /\ UNCHANGED <<opvars, layervars, netvars>>

\* sess.run raises OutOfRangeError: break; the average is printed
ValidEnd ==
    /\ tpc = "valid"
    /\ iter_left = 0
    /\ tpc' = "done"
    /\ UNCHANGED <<i, saved, iter_left, valid_iters, n_train, n_test>>
    /\ UNCHANGED <<opvars, layervars, netvars>>

TrainNext == TrainStep \/ TrainEnd \/ ValidStep \/ ValidEnd

InitTrain == TrainInit /\ OpIdle /\ LayerIdle /\ NetIdle

\* the loops are one sequential program: a step that can be taken is taken
SpecTrain == InitTrain /\ [][TrainNext]_vars /\ WF_vars(TrainNext)

----------------------------------------------------------------------------
(* Properties of the op.                                                   *)

BatchSize == x_shape[1]

NOut == w_shape[1]

NIn == w_shape[2]

ForwardDone == oppc \in {"forward", "backward"}

BackwardDone == oppc = "backward"

Unique(idx) == \A a, b \in DOMAIN idx : a # b => idx[a] # idx[b]

Present(idx, r, c) == \E t \in DOMAIN idx : idx[t] = <<r, c>>

\* the entry (r, c) of the dense reconstruction of a sparse tensor
DenseAt(idx, val, r, c) ==
    IF Present(idx, r, c)
    THEN val[CHOOSE t \in DOMAIN idx : idx[t] = <<r, c>>]
    ELSE 0

ColsOf(idx) == {idx[t][2] : t \in DOMAIN idx}

RowCols(idx, r) == {idx[t][2] : t \in {u \in DOMAIN idx : idx[u][1] = r}}

\* every batch row's nonzero columns are exactly the columns of the weight
PatternMatch ==
    /\ Unique(w_idx) /\ Unique(x_idx)
    /\ \A b \in 0..(BatchSize - 1) : RowCols(x_idx, b) = ColsOf(w_idx)

\* the weight pattern is the full cross product of output units and columns
FullWeight ==
    /\ Unique(w_idx)
    /\ {w_idx[t] : t \in DOMAIN w_idx} = (0..(NOut - 1)) \X ColsOf(w_idx)

\* some weight entry has no matching entry in some batch row of the input
XMiss ==
    \E j \in DOMAIN w_idx, b \in 0..(BatchSize - 1) :
        ~Present(x_idx, b, w_idx[j][2])

\* some input entry has no matching weight entry for some output unit
WMiss ==
    \E k \in DOMAIN x_idx, o \in 0..(NOut - 1) :
        ~Present(w_idx, o, x_idx[k][2])

\* (X . W^T)[b, o] of the dense reconstructions
MatMulAt(b, o) ==
    SumSeq([c \in 1..NIn |->
              DenseAt(w_idx, w_val, o, c - 1) * DenseAt(x_idx, x_val, b, c - 1)])

\* sum over b of grad[b, o] * X[b, c]
WGradAt(o, c) ==
    SumSeq([b \in 1..BatchSize |->
              grad[(b - 1) * NOut + o + 1] * DenseAt(x_idx, x_val, b - 1, c)])

\* sum over o of grad[r, o] * W[o, c]
XGradAt(r, c) ==
    SumSeq([o \in 1..NOut |->
              grad[r * NOut + (o - 1) + 1] * DenseAt(w_idx, w_val, o - 1, c)])

IsExample == w_val = <<2, 3>> /\ x_val = <<5, 7>> /\ BatchSize = 1 /\ NOut = 1

AllOnes(s) == \A t \in DOMAIN s : s[t] = 1

\* C1: on pattern-matching inputs with unique indices dense_np returns, and
\* its output, entry b*n_out + o, is the matrix product (X . W^T)[b, o] of the
\* dense reconstructions; so is the dense reconstruction of the output.
C1_ForwardIsMatMul ==
    (ForwardDone /\ PatternMatch) =>
        /\ h.ok
        /\ \A b \in 0..(BatchSize - 1), o \in 0..(NOut - 1) :
            /\ h.h_val[b * NOut + o + 1] = MatMulAt(b, o)
            /\ DenseAt(h.h_idx, h.h_val, b, o) = MatMulAt(b, o)

C1_Witness ==
    /\ ForwardDone /\ PatternMatch /\ h.ok
    /\ BatchSize = 2 /\ NOut = 2 /\ Len(w_idx) = 4
    /\ h.h_val[1] # h.h_val[2] /\ h.h_val[3] # h.h_val[1]

\* C2 as stated: a weight entry without a matching input entry contributes
\* zero and dense_np still returns its full result.
C2_MissingIsZero ==
    (ForwardDone /\ XMiss) =>
        /\ h.ok
        /\ h.h_shape = <<BatchSize, NOut>>
        /\ \A b \in 0..(BatchSize - 1), o \in 0..(NOut - 1) :
            h.h_val[b * NOut + o + 1] = MatMulAt(b, o)

\* C2 amended: a weight entry without a matching input entry in some batch
\* row makes dense_np raise ValueError; nothing is returned.
C2_MissingRaises ==
    (ForwardDone /\ XMiss) => (~h.ok /\ h.err = "ValueError")

C2_Witness ==
    /\ ForwardDone /\ XMiss /\ ~h.ok
    /\ BatchSize = 2 /\ Len(x_idx) = 3 /\ Len(w_idx) = 4

\* C5: whenever dense_np returns, h_shape is [batch, n_out], h_idx lists the
\* pairs (b, o) in row-major order, and h_val is as long as h_idx, zero
\* values included.
C5_OutputDenseOverPattern ==
    (ForwardDone /\ h.ok) =>
        /\ h.h_shape = <<BatchSize, NOut>>
        /\ Len(h.h_idx) = BatchSize * NOut
        /\ Len(h.h_val) = BatchSize * NOut
        /\ \A b \in 0..(BatchSize - 1), o \in 0..(NOut - 1) :
            h.h_idx[b * NOut + o + 1] = <<b, o>>

C5_Witness ==
    /\ ForwardDone /\ h.ok /\ BatchSize = 2 /\ NOut = 2
    /\ Len(w_idx) = 4
    /\ \E t \in DOMAIN h.h_val : h.h_val[t] = 0 /\ h.h_idx[t] = <<1, 1>>

\* C3 as stated, where an input entry is absent: dense_grad_np returns one
\* w_grad scalar per weight nonzero, w_grad[j] = sum over b of
\* grad[b, out_unit] * x_val at (b, in_col), the absent entry counting as zero.
C3_WGradMissingIsZero ==
    (BackwardDone /\ XMiss) =>
        /\ g.ok
        /\ Len(g.w_grad) = Len(w_idx)
        /\ \A j \in DOMAIN w_idx : g.w_grad[j] = WGradAt(w_idx[j][1], w_idx[j][2])
        /\ (IsExample /\ AllOnes(grad)) => g.w_grad = <<5, 7>>

\* C3 amended: whenever dense_grad_np returns, w_grad has one scalar per
\* weight nonzero and w_grad[j] is that sum, every (b, in_col) entry being
\* present; a weight entry whose (b, in_col) entry is absent from x_idx for
\* some batch row makes the call raise ValueError.  The example gives [5, 7].
C3_WGrad ==
    BackwardDone =>
        /\ g.ok =>
            /\ ~XMiss
            /\ Len(g.w_grad) = Len(w_idx)
            /\ \A j \in DOMAIN w_idx :
                g.w_grad[j] = WGradAt(w_idx[j][1], w_idx[j][2])
        /\ XMiss => (~g.ok /\ g.err = "ValueError")
        /\ (IsExample /\ AllOnes(grad)) => (g.ok /\ g.w_grad = <<5, 7>>)

C3_Witness ==
    /\ BackwardDone /\ g.ok /\ BatchSize = 2 /\ NOut = 2 /\ Len(w_idx) = 4
    /\ ~AllOnes(grad)
    /\ g.w_grad[1] # g.w_grad[2] /\ g.w_grad[1] # g.w_grad[3]

\* C4 as stated, where a weight entry is missing: dense_grad_np returns one
\* x_grad scalar per input nonzero, x_grad[k] = sum over o of
\* grad[row, o] * w_val at (o, in_col), the missing entry counting as zero.
C4_XGradMissingIsZero ==
    (BackwardDone /\ WMiss) =>
        /\ g.ok
        /\ Len(g.x_grad) = Len(x_idx)
        /\ \A k \in DOMAIN x_idx : g.x_grad[k] = XGradAt(x_idx[k][1], x_idx[k][2])
        /\ (IsExample /\ AllOnes(grad)) => g.x_grad = <<2, 3>>

\* C4 amended: whenever dense_grad_np returns, x_grad has one scalar per
\* input nonzero and x_grad[k] is that sum, every (o, in_col) entry being
\* present in the weight pattern; an input entry whose column lacks a weight
\* entry for some output unit makes the call raise ValueError.  The example
\* gives [2, 3].
C4_XGrad ==
    BackwardDone =>
        /\ g.ok =>
            /\ ~WMiss
            /\ Len(g.x_grad) = Len(x_idx)
            /\ \A k \in DOMAIN x_idx :
                g.x_grad[k] = XGradAt(x_idx[k][1], x_idx[k][2])
        /\ WMiss => (~g.ok /\ g.err = "ValueError")
        /\ (IsExample /\ AllOnes(grad)) => (g.ok /\ g.x_grad = <<2, 3>>)

C4_Witness ==
    /\ BackwardDone /\ WMiss /\ ~XMiss /\ ~g.ok /\ h.ok
    /\ NOut = 2 /\ Len(w_idx) = 3 /\ Len(x_idx) = 4

\* L(wv, xv) = sum over t of grad[t] * dense_np(w_idx, wv, x_idx, xv).h_val[i]
Loss(wv, xv) ==
    LET res == dense_np(w_idx, wv, w_shape, x_idx, xv, x_shape)
    IN  SumSeq([t \in 1..Len(grad) |-> grad[t] * res.h_val[t]])

\* the finite differences taken
Deltas == {-1, 2}

\* C6: on a pattern-matching pair with the full weight pattern the backward
\* op returns the exact finite differences of L: changing w_val[j] by d
\* changes L by d * w_grad[j], changing x_val[k] by d changes L by
\* d * x_grad[k].
C6_GradientIsFiniteDifference ==
    (BackwardDone /\ PatternMatch /\ FullWeight) =>
        /\ g.ok
        /\ LET L0 == Loss(w_val, x_val)
           IN  \A d \in Deltas :
                /\ \A j \in DOMAIN w_val :
                    Loss([w_val EXCEPT ![j] = @ + d], x_val) - L0
                        = d * g.w_grad[j]
                /\ \A k \in DOMAIN x_val :
                    Loss(w_val, [x_val EXCEPT ![k] = @ + d]) - L0
                        = d * g.x_grad[k]

C6_Witness ==
    /\ BackwardDone /\ PatternMatch /\ FullWeight /\ g.ok
    /\ BatchSize = 2 /\ NOut = 2 /\ Len(w_idx) = 4 /\ ~AllOnes(grad)
    /\ \E j, k \in DOMAIN g.w_grad : g.w_grad[j] # g.w_grad[k]
    /\ \E j, k \in DOMAIN g.x_grad : g.x_grad[j] # g.x_grad[k]

----------------------------------------------------------------------------
(* Properties of the layer and of the gradient registration.               *)

\* what a step may do to the layer
C7_Step ==
    /\ layer.built =>
        /\ layer'.built
        /\ layer'.w_indices = layer.w_indices
        /\ layer'.w_shape = layer.w_shape
        /\ n_builds' = n_builds
        /\ (n_calls' # n_calls => layer'.w_values = layer.w_values)
    /\ ~layer.built =>
        \/ layer' = layer /\ n_calls' = n_calls
        \/ /\ n_calls = 0 /\ n_calls' = 1
           /\ layer'.built
           /\ n_builds = 0 /\ n_builds' = 1
           /\ layer'.w_shape = <<layer.n_units_out, layer.n_units_in>>
           /\ Len(layer'.w_values) = layer.n_units_out * Len(layer.in_indices)
           /\ Len(layer'.w_indices) = layer.n_units_out * Len(layer.in_indices)
           /\ \A o \in 0..(layer.n_units_out - 1), c \in DOMAIN layer.in_indices :
                layer'.w_indices[o * Len(layer.in_indices) + c]
                    = <<o, layer.in_indices[c]>>

\* C7: the layer is built exactly once, by its first forward call; afterwards
\* no step runs build again or changes the weight pattern or shape, and a
\* forward call leaves the weight values as they are.
C7_BuiltOnce ==
    /\ [](layer.built <=> n_calls > 0)
    /\ [](layer.built => n_builds = 1)
    /\ [][C7_Step]_vars

C7_Witness ==
    /\ layer.built /\ n_builds = 1 /\ n_calls = 2 /\ n_updates = 1
    /\ last = "call" /\ out.ok /\ Len(layer.w_indices) = 4

\* C8: every py_func call registers its gradient under a name no earlier
\* call has taken, so no registration fails and the table has one entry per
\* call.
C8_RegistrationAlwaysSucceeds ==
    /\ lerr # "KeyError"
    /\ Cardinality(gradient_registry) = n_calls

----------------------------------------------------------------------------
(* Properties of the training loop and of nn_model.                        *)

C9_Inv ==
    /\ tpc \in {"train", "valid", "done"}
    /\ tpc = "train" => (i = n_train - iter_left /\ valid_iters = 0)
    /\ tpc \in {"valid", "done"} =>
        (i = n_train /\ valid_iters = n_test - iter_left)
    /\ tpc = "done" => (iter_left = 0 /\ valid_iters = n_test)
    /\ {saved[t] : t \in DOMAIN saved} = {k \in 0..(i - 1) : k % 10 = 0}
    /\ \A t \in DOMAIN saved : saved[t] = 10 * (t - 1)

\* C9: i counts the batches trained on, a checkpoint is saved exactly at the
\* steps 0, 10, 20, ..., the end of the training set ends the training loop
\* and only then starts the validation loop, which runs one step per test
\* batch and ends with the test set.
C9_TrainingLoop == []C9_Inv /\ <>(tpc = "done")

C9_Witness ==
    /\ tpc = "done" /\ n_train = 21 /\ i = 21
    /\ saved = <<0, 10, 20>> /\ valid_iters = 3

\* the sparse tensor t has, for every row 0..rows-1, the columns 0..9 in
\* ascending order
HasHiddenPattern(t, rows) ==
    /\ Len(t.indices) = rows * 10
    /\ Len(t.values) = rows * 10
    /\ \A b \in 0..(rows - 1), c \in 0..9 : t.indices[b * 10 + c + 1] = <<b, c>>

\* C10: whatever the weights, the output of layer 1 and of layer 2 has for
\* every batch row exactly the columns 0..9 in ascending order, so no lookup
\* of layer 2 or layer 3 misses: a ValueError can only come from layer 1.
C10_PatternPropagates ==
    /\ fc1.ok => HasHiddenPattern(fc1, next_element.dense_shape[1])
    /\ fc2.ok => HasHiddenPattern(fc2, next_element.dense_shape[1])
    /\ lerr = "ValueError" => (npc = 1 /\ ~fc1.ok)
    /\ (npc >= 2 /\ lerr = "") => fc2.ok
    /\ (npc = 3 /\ lerr = "") => fc3.ok

C10_Witness ==
    /\ npc = 3 /\ fc3.ok /\ lerr = ""
    /\ next_element.dense_shape[1] = 2
    /\ \E t \in DOMAIN index : t > 1 /\ index[t] < index[t - 1]
    /\ \E t, u \in DOMAIN fc1.values : fc1.values[t] = 0 /\ fc1.values[u] > 0
    /\ \E t, u \in DOMAIN fc2.values : fc2.values[t] = 0 /\ fc2.values[u] > 0

====
